---- MODULE Spec2Model ----
(***************************************************************************)
(* The composition engine of the puzzle sheet generator: runGeneration     *)
(* (src/App.tsx) driving drawAsync (src/unnamed/part_000, imported as      *)
(* ./utils) on the one shared hidden canvas, with cancelProcess and the    *)
(* three generate buttons as the user's actions.                           *)
(*                                                                         *)
(* JavaScript runs one task at a time: a handler or the continuation of an *)
(* await runs to its next await without interruption.  Every action below  *)
(* is one such task, so the interleavings of the model are exactly those   *)
(* of the event loop: user clicks, timers, image load/error events and the *)
(* toBlob callback, in any order.                                          *)
(***************************************************************************)
EXTENDS Integers, Sequences, FiniteSets, TLC

\* ------------------------------------------------------------------ bounds
MaxImages == 3
MaxCols == 2
MaxRows == 2
MaxStart == 2
MaxSeqImages == 11
MaxSeqCols == 3
MaxSeqRows == 2
MaxLayoutCols == 7
MaxMaskLen == 3
MaxFresh == 4

\* SpecFit: the pictures of a run, and the columns of its grid.
MaxFitImages == 5
MaxFitCols == 6

\* ------------------------------------------------------- program constants
MAX_CANVAS_DIMENSION == 8192
BaseCellW == 1500
DefaultCols == 3
DefaultRows == 50
LoadRetries == 2
YieldEvery == 10
MinQuality == 10
MaxQuality == 100
CHUNK_SIZE == 50

\* The invocations of runGeneration that may be in flight together.
Runs == {1, 2}

OpTypes == {"normal", "apply", "repack"}

\* ---------------------------------------------------------------- helpers
Min(a, b) == IF a < b THEN a ELSE b
Max(a, b) == IF a > b THEN a ELSE b
CeilDiv(a, b) == (a + b - 1) \div b
SeqToSet(s) == {s[k] : k \in 1..Len(s)}

\* Array.prototype.slice(from, to) on 0-based indices, to exclusive.
Slice(s, from, to) == [k \in 1..Max(0, Min(to, Len(s)) - from) |-> s[from + k]]

\* Number.prototype.toString of a non-negative integer, in decimal.
DigitChar(d) ==
  CASE d = 0 -> "0" [] d = 1 -> "1" [] d = 2 -> "2" [] d = 3 -> "3" [] d = 4 -> "4"
    [] d = 5 -> "5" [] d = 6 -> "6" [] d = 7 -> "7" [] d = 8 -> "8" [] d = 9 -> "9"
RECURSIVE Decimal(_)
Decimal(n) == IF n < 10 THEN <<DigitChar(n)>> ELSE Decimal(n \div 10) \o <<DigitChar(n % 10)>>

\* --------------------------------------------------------- parseMaskIndices
\* A string is a sequence of its characters.
Digits == {"0", "1", "2", "3", "4", "5", "6", "7", "8", "9"}
DigitVal(c) ==
  CASE c = "0" -> 0 [] c = "1" -> 1 [] c = "2" -> 2 [] c = "3" -> 3 [] c = "4" -> 4
    [] c = "5" -> 5 [] c = "6" -> 6 [] c = "7" -> 7 [] c = "8" -> 8 [] c = "9" -> 9

\* The characters outside ASCII are written by name: "FWCOMMA" is the full-width
\* comma U+FF0C, "ENUMCOMMA" the enumeration comma U+3001, "EMDASH" U+2014 and
\* "ENDASH" U+2013; " " stands for every white-space character.
\* The separator regex of split: comma, full-width comma, enumeration comma, \s.
Separators == {",", "FWCOMMA", "ENUMCOMMA", " "}
\* The regex of replace: tilde, em dash, en dash are rewritten to the hyphen.
RangeChars == {"~", "EMDASH", "ENDASH"}

\* String.prototype.split on the separator regex: a run of separators is one
\* delimiter; a leading or trailing run leaves an empty first or last part.
RECURSIVE SplitSep(_, _, _, _)
SplitSep(s, k, cur, inSep) ==
  IF k > Len(s) THEN <<cur>>
  ELSE IF s[k] \in Separators
       THEN IF inSep THEN SplitSep(s, k + 1, cur, TRUE)
            ELSE <<cur>> \o SplitSep(s, k + 1, <<>>, TRUE)
       ELSE SplitSep(s, k + 1, Append(cur, s[k]), FALSE)

\* String.prototype.split('-'): every hyphen delimits, empty parts are kept.
RECURSIVE SplitHyphen(_, _, _)
SplitHyphen(s, k, cur) ==
  IF k > Len(s) THEN <<cur>>
  ELSE IF s[k] = "-" THEN <<cur>> \o SplitHyphen(s, k + 1, <<>>)
       ELSE SplitHyphen(s, k + 1, Append(cur, s[k]))

ReplaceRangeChars(s) == [k \in 1..Len(s) |-> IF s[k] \in RangeChars THEN "-" ELSE s[k]]

\* The value of the longest run of decimal digits of s starting at k.
RECURSIVE DigitsValue(_, _, _)
DigitsValue(s, k, acc) ==
  IF k > Len(s) \/ s[k] \notin Digits THEN acc
  ELSE DigitsValue(s, k + 1, acc * 10 + DigitVal(s[k]))

\* parseInt(s) in radix 10: an optional sign, then the longest prefix of digits;
\* what follows the digits is ignored.  <<>> stands for NaN, <<n>> for n.
\* (No token reaches parseInt with leading white space or a hyphen; the prefix 0x
\* of a hexadecimal numeral is not told apart, and no input below contains it.)
parseInt(s) ==
  LET signed == Len(s) > 0 /\ s[1] \in {"+", "-"}
      from == IF signed THEN 2 ELSE 1
      v == DigitsValue(s, from, 0)
  IN  IF from > Len(s) \/ s[from] \notin Digits THEN <<>>
      ELSE IF signed /\ s[1] = "-" THEN <<0 - v>> ELSE <<v>>

\* The numbers lo, lo + 1, ..., hi (none when hi < lo).
RangeSeq(lo, hi) == [k \in 1..(hi - lo + 1) |-> lo + k - 1]

\* RangeOf counting up from s whatever e is.
RangeOfAscending(s, e) == RangeSeq(s, e)

\* for (k = Math.min(s,e); k <= Math.max(s,e); k++) maskTargets.push(k)
RangeOf(s, e) == RangeSeq(Min(s, e), Max(s, e))

\* What one part pushes onto maskTargets.
MaskPart(part) ==
  IF part = <<>> THEN <<>>
  ELSE LET standardPart == ReplaceRangeChars(part)
       IN  IF "-" \in SeqToSet(standardPart)
           THEN LET rangeParts == SplitHyphen(standardPart, 1, <<>>)
                IN  IF Len(rangeParts) = 2
                    THEN LET s == parseInt(rangeParts[1])
                             e == parseInt(rangeParts[2])
                         IN  IF s # <<>> /\ e # <<>>
                             THEN RangeOf(s[1], e[1])
                             ELSE <<>>
                    ELSE <<>>
           ELSE LET num == parseInt(standardPart)
                IN  IF num # <<>> THEN num ELSE <<>>

RECURSIVE MaskParts(_, _)
MaskParts(parts, k) ==
  IF k > Len(parts) THEN <<>> ELSE MaskPart(parts[k]) \o MaskParts(parts, k + 1)

parseMaskIndices(input) == MaskParts(SplitSep(input, 1, <<>>, FALSE), 1)

\* Array.prototype.includes
Includes(arr, x) == x \in SeqToSet(arr)


\* ------------------------------------------------------------------ getRatio
\* parseFloat of the named ratios, as the fraction <<numerator, denominator>>.
ParseFloatRatio(a) ==
  CASE a = "0.5625" -> <<9, 16>> [] a = "0.75" -> <<3, 4>>
    [] a = "1" -> <<1, 1>> [] a = "1.333" -> <<1333, 1000>>

\* settings.customW || 1000, settings.customH || 1500: 0 (and NaN, written 0) is falsy.
getRatio(st) ==
  IF st.aspectRatio # "custom" THEN ParseFloatRatio(st.aspectRatio)
  ELSE <<(IF st.customW # 0 THEN st.customW ELSE 1000),
         (IF st.customH # 0 THEN st.customH ELSE 1500)>>

\* ----------------------------------------------------------------- settings
\* "null" is JavaScript's null; any other value of an image URL is a URL.
DEFAULT_SETTINGS ==
  [aspectRatio |-> "0.75", customW |-> 1000, customH |-> 1500, gap |-> 0,
   showNum |-> TRUE, startNumber |-> 1, cols |-> 3, groupRows |-> 3,
   overlayImgUrl |-> "null", qualityVal |-> 50, maskMode |-> "line",
   maskIndices |-> <<>>, lineStyle |-> "cross", stickerImgUrl |-> "null"]

\* ------------------------------------------------------------------- state
VARIABLES
  images,          \* useState<ImageItem[]>: the image list, in order
  settings,        \* useState<Settings>
  canvasPresent,   \* whether canvasRef.current is set
  generatedBlobs,  \* useState<Blob[]>
  isLoading,       \* useState(false)
  cancelRef,       \* cancelRef.current
  canvas,          \* the hidden canvas: width, height and what was drawn since its last resize
  pc,              \* pc[r]: where invocation r of runGeneration is suspended
  run,             \* run[r]: the locals of invocation r (and of the drawAsync call it awaits)
  revoked,         \* the object URLs given to URL.revokeObjectURL
  fresh,           \* how many ids and object URLs have been created
  db,              \* the object store 'images' of the database: records keyed by id
  dbQueue,         \* the store operations issued and not yet settled, oldest first
  importJob,       \* the handleFiles call suspended at its await, if any
  downloads,       \* the files handed to the browser for download
  downloadJob      \* the handleDownload call suspended at an await, if any

\* The image list's persistence and the downloads: untouched by the composition engine.
editVars == <<revoked, fresh, db, dbQueue, importJob>>
dlVars == <<downloads, downloadJob>>

vars == <<images, settings, canvasPresent, generatedBlobs, isLoading, cancelRef, canvas, pc, run,
          revoked, fresh, db, dbQueue, importJob, downloads, downloadJob>>

\* let img: HTMLImageElement | null
\* (resolved: whether the object URL named a blob when it was assigned to img.src.)
NullImg == [live |-> FALSE, src |-> 0, retries |-> 0, isBroken |-> FALSE, valid |-> FALSE,
            resolved |-> FALSE]

\* What is known of the cell acquisition under way or last finished (a record of
\* the run's past, read by nothing in the program).
NoAcq == [attempts |-> 0, errors |-> 0, timers |-> 0, resolves |-> 0, srcs |-> {}, brokenAt |-> 0,
          cancelled |-> FALSE]

\* How the cell drawn last came out (part of the run's past as well).
NoCell == [b |-> -1, i |-> -1, kind |-> "none", acq |-> "none", rect |-> <<>>]

IdleRun ==
  [opType |-> "none", images |-> <<>>, settings |-> DEFAULT_SETTINGS,
   targets |-> <<>>, maskIndicesArr |-> <<>>, b |-> 0, i |-> 0, tempBlobs |-> <<>>,
   img |-> NullImg, stickerImgObj |-> "null", overlayImgObj |-> "null",
   snapshot |-> <<>>,
   \* the run's past
   drawLog |-> <<>>, last |-> NoCell, acq |-> NoAcq, exit |-> "none", encodes |-> 0, nullBlobs |-> 0,
   cancelledAcq |-> 0, cancelAt |-> <<>>]

\* new canvas element: 300 x 150, nothing drawn; its 2d context in its default
\* state: no state saved (saved counts each ctx.save() still without its
\* ctx.restore()), no clip region (clip is the clip region: -1 for the whole
\* canvas, i >= 0 for the rectangle of cell i, -2 for the intersection of the
\* rectangles of two cells, which share no pixel).
FreshCanvas == [width |-> 300, height |-> 150, ops |-> <<>>, saved |-> 0, clip |-> -1]

\* What toBlob encodes: the bitmap, not the state of the context.
Pixels(c) == [width |-> c.width, height |-> c.height, ops |-> c.ops]

\* ----------------------------------------------- the locals of runGeneration
cols(rn) == IF rn.settings.cols # 0 THEN rn.settings.cols ELSE DefaultCols
rows(rn) == IF rn.settings.groupRows # 0 THEN rn.settings.groupRows ELSE DefaultRows
batchSize(rn) == cols(rn) * rows(rn)

\* totalBatches dividing downwards.
totalBatchesFloor(rn) == Len(rn.targets) \div batchSize(rn)

\* Math.ceil(targets.length / batchSize)
totalBatches(rn) == CeilDiv(Len(rn.targets), batchSize(rn))

\* qVal without the lower clamp.
qValNoFloor(st) == IF st.qualityVal > MaxQuality THEN MaxQuality ELSE st.qualityVal

\* if (qVal < 10) qVal = 10; if (qVal > 100) qVal = 100
qVal(st) ==
  IF st.qualityVal < MinQuality THEN MinQuality
  ELSE IF st.qualityVal > MaxQuality THEN MaxQuality ELSE st.qualityVal
isPng(st) == qVal(st) = 100
mimeType(st) == IF isPng(st) THEN "image/png" ELSE "image/jpeg"

\* RepackFilter taking the position of an image from 1.
RECURSIVE RepackFilterOneBased(_, _, _, _)
RepackFilterOneBased(targets, maskIndicesArr, startNum, k) ==
  IF k > Len(targets) THEN <<>>
  ELSE (IF Includes(maskIndicesArr, startNum + k) THEN <<>> ELSE <<targets[k]>>)
       \o RepackFilterOneBased(targets, maskIndicesArr, startNum, k + 1)

\* targets.filter((_, i) => !maskIndicesArr.includes(startNum + i))
RECURSIVE RepackFilter(_, _, _, _)
RepackFilter(targets, maskIndicesArr, startNum, k) ==
  IF k > Len(targets) THEN <<>>
  ELSE (IF Includes(maskIndicesArr, startNum + (k - 1)) THEN <<>> ELSE <<targets[k]>>)
       \o RepackFilter(targets, maskIndicesArr, startNum, k + 1)

\* Targets filtering in apply mode as well.
TargetsFilteringApply(opType, imgs, st) ==
  IF opType \in {"repack", "apply"}
  THEN RepackFilter(imgs, parseMaskIndices(st.maskIndices), st.startNumber, 1)
  ELSE imgs

\* let targets = images.map(...); if (opType === 'repack') targets = targets.filter(...)
Targets(opType, imgs, st) ==
  IF opType = "repack"
  THEN RepackFilter(imgs, parseMaskIndices(st.maskIndices), st.startNumber, 1)
  ELSE imgs

currentImgs(rn) ==
  Slice(rn.targets, rn.b * batchSize(rn), Min((rn.b + 1) * batchSize(rn), Len(rn.targets)))

\* cellW without the cap.
cellWUncapped(rn) == BaseCellW

\* let cellW = 1500; if (cols * cellW > MAX_CANVAS_DIMENSION) cellW = Math.floor(...)
cellW(rn) ==
  IF cols(rn) * BaseCellW > MAX_CANVAS_DIMENSION
  THEN (MAX_CANVAS_DIMENSION - rn.settings.gap * cols(rn)) \div cols(rn)
  ELSE BaseCellW
cellH(rn) == LET ratio == getRatio(rn.settings) IN (cellW(rn) * ratio[2]) \div ratio[1]

\* drawSettings.stickerImgUrl
drawStickerUrl(rn) ==
  IF rn.settings.maskMode = "image" THEN rn.settings.stickerImgUrl ELSE "null"

\* applyMask true in every mode but normal.
applyMaskButNormal(rn) ==
  rn.opType # "normal" \/ (rn.opType = "normal" /\ Len(rn.settings.maskIndices) > 0)

\* the applyMask argument of the drawAsync call
applyMask(rn) ==
  rn.opType = "apply" \/ (rn.opType = "normal" /\ Len(rn.settings.maskIndices) > 0)


\* ------------------------------------------------- one task of an invocation
\* A task of invocation r works on the record w: its own pc and locals (rn) and
\* the shared canvas, generatedBlobs and isLoading.  cancelRef is only read.
World(r) ==
  [pc |-> pc[r], rn |-> run[r], canvas |-> canvas,
   generatedBlobs |-> generatedBlobs, isLoading |-> isLoading]

Apply(r, w) ==
  /\ pc' = [pc EXCEPT ![r] = w.pc]
  /\ run' = [run EXCEPT ![r] = w.rn]
  /\ canvas' = w.canvas
  /\ generatedBlobs' = w.generatedBlobs
  /\ isLoading' = w.isLoading

\* One layer drawn on the canvas: by invocation r, for its batch b, cell i (-1: the
\* sheet).  A cell's first layer is its image or its placeholder.
Op(op, r, b, i, num) == [op |-> op, run |-> r, b |-> b, i |-> i, num |-> num]

\* FinishRun without the test of cancelRef around setGeneratedBlobs.
FinishRunPublishAlways(r, w) ==
  [w EXCEPT !.pc = "done",
            !.generatedBlobs = w.rn.tempBlobs,
            !.isLoading = FALSE,
            !.rn.exit = IF cancelRef THEN "cancelled" ELSE "completed"]

\* After the batch loop: publish unless cancelled, then setIsLoading(false).
FinishRun(r, w) ==
  [w EXCEPT !.pc = "done",
            !.generatedBlobs = IF ~cancelRef THEN w.rn.tempBlobs ELSE @,
            !.isLoading = FALSE,
            !.rn.exit = IF cancelRef THEN "cancelled" ELSE "completed"]

\* for (b < totalBatches) { if (cancelRef.current) break; ...; await 200 ms
BatchHead(r, w) ==
  IF w.rn.b < totalBatches(w.rn) /\ ~cancelRef
  THEN [w EXCEPT !.pc = "gcpause"]
  ELSE FinishRun(r, w)

\* drawAsync has returned: if (cancelRef.current) break; canvas.toBlob(...)
\* toBlob encodes the canvas as it is when it is called.
AfterDraw(r, w) ==
  IF cancelRef THEN FinishRun(r, w)
  ELSE [w EXCEPT !.pc = "encoding", !.rn.snapshot = <<Pixels(w.canvas)>>,
                 !.rn.encodes = @ + 1]

\* new Image(); await loadImg(imgs[i]): handlers set, img.src = src
Acquire(r, w) ==
  LET src == currentImgs(w.rn)[w.rn.i + 1]
  IN  [w EXCEPT !.pc = "loading",
                !.rn.img = [live |-> TRUE, src |-> src, retries |-> LoadRetries,
                            isBroken |-> FALSE, valid |-> FALSE,
                            resolved |-> src \notin revoked],
                !.rn.acq = [NoAcq EXCEPT !.attempts = 1, !.srcs = {src},
                                         !.cancelled = cancelRef],
                !.rn.cancelledAcq = IF cancelRef THEN @ + 1 ELSE @]

\* DrawOverlay without the test of complete and naturalWidth.
DrawOverlayUnchecked(r, w) ==
  IF w.rn.overlayImgObj # "null"
  THEN [w EXCEPT !.canvas.ops = Append(@, Op("overlay", r, w.rn.b, -1, 0))]
  ELSE w

\* Draw Global Overlay, once the cell loop is over
DrawOverlay(r, w) ==
  IF w.rn.overlayImgObj = "valid"
  THEN [w EXCEPT !.canvas.ops = Append(@, Op("overlay", r, w.rn.b, -1, 0))]
  ELSE w

\* for (i < imgs.length) { if (isCancelled()) return; if (i % 10 === 0) await yield; ...
CellHead(r, w) ==
  IF w.rn.i < Len(currentImgs(w.rn))
  THEN IF cancelRef THEN AfterDraw(r, w)
       ELSE IF w.rn.i % YieldEvery = 0 THEN [w EXCEPT !.pc = "yield"]
       ELSE Acquire(r, w)
  ELSE AfterDraw(r, DrawOverlay(r, w))

\* const r = Math.floor(i / cols); const c = i % cols; x = c * (w + gap); y = r * (h + gap)
CellRow(rn, i) == i \div cols(rn)
CellCol(rn, i) == i % cols(rn)
CellX(rn, i) == CellCol(rn, i) * (cellW(rn) + rn.settings.gap)
CellY(rn, i) == CellRow(rn, i) * (cellH(rn) + rn.settings.gap)

\* img.width and img.height of a decoded image: the natural size of the picture
\* behind its URL, <<width, height>>.  (Small sizes of several shapes; a shape
\* enters the fit only through its ratio.)
PictureSizes == << <<4, 3>>, <<3, 4>>, <<1, 1>>, <<7, 2>>, <<2, 7>> >>
NaturalSize(src) == PictureSizes[((src - 1) % Len(PictureSizes)) + 1]

\* The fit with its test reversed: the whole image inside the cell.
CoverFitContain(size, x, y, w, h) ==
  LET iw == size[1]
      ih == size[2]
      S == 2 * iw * ih
  IN  IF iw * h < w * ih
      THEN [x |-> x * S - (2 * h * iw * iw - w * S) \div 2, y |-> y * S,
            w |-> 2 * h * iw * iw, h |-> h * S, scale |-> S]
      ELSE [x |-> x * S, y |-> y * S - (2 * w * ih * ih - h * S) \div 2,
            w |-> w * S, h |-> 2 * w * ih * ih, scale |-> S]

\* iRatio = img.width / img.height; cRatio = w / h;
\* if (iRatio > cRatio) drawImage(img, x - (h*iRatio - w)/2, y, h*iRatio, h)
\* else drawImage(img, x, y - (w/iRatio - h)/2, w, w/iRatio).
\* The destination rectangle as exact fractions over the common denominator
\* scale = 2 * img.width * img.height (the differences halved are even).
CoverFit(size, x, y, w, h) ==
  LET iw == size[1]
      ih == size[2]
      S == 2 * iw * ih
  IN  IF iw * h > w * ih
      THEN [x |-> x * S - (2 * h * iw * iw - w * S) \div 2, y |-> y * S,
            w |-> 2 * h * iw * iw, h |-> h * S, scale |-> S]
      ELSE [x |-> x * S, y |-> y * S - (2 * w * ih * ih - h * S) \div 2,
            w |-> w * S, h |-> 2 * w * ih * ih, scale |-> S]

\* the rectangle drawImage is given for the image of cell rn.i
drawImageRect(rn) ==
  CoverFit(NaturalSize(rn.img.src), CellX(rn, rn.i), CellY(rn, rn.i), cellW(rn), cellH(rn))

\* currentNum without the batch's offset.
currentNumLocal(rn) == rn.settings.startNumber + rn.i

\* const currentNum = startNum + globalOffset + i, globalOffset being b * batchSize
currentNum(rn) == rn.settings.startNumber + rn.b * batchSize(rn) + rn.i

\* Targeted comparing the cell's number within its sheet.
TargetedLocal(rn) == applyMask(rn) /\ Includes(rn.maskIndicesArr, rn.settings.startNumber + rn.i)

\* if (applyMask && maskIndices.includes(currentNum))
Targeted(rn) == applyMask(rn) /\ Includes(rn.maskIndicesArr, currentNum(rn))

\* the mark drawn on a targeted cell: sticker, line, or neither branch
MaskMark(rn) ==
  IF ~Targeted(rn) THEN "none"
  ELSE IF rn.stickerImgObj = "valid" THEN "sticker"
  ELSE IF rn.stickerImgObj = "null" THEN "line"
  ELSE "none"

\* Unusable without the test of the natural size and of complete.
UnusableNoSizeCheck(img) == ~img.live \/ img.isBroken

\* the strict check: must exist, not be broken, have valid dimensions, be complete
Unusable(img) == ~img.live \/ img.isBroken \/ ~img.valid

\* placeholder, image, or the catch branch when drawImage throws
CellKind(img, threw) ==
  IF Unusable(img) THEN "placeholder" ELSE IF threw THEN "caught" ELSE "image"

\* how the acquisition ended
AcqResult(img) ==
  IF img.isBroken THEN "broken" ELSE IF img.valid THEN "decoded" ELSE "invalid"

\* The context after the image of cell i: the placeholder branch saves nothing;
\* the image branch does save, clip to the cell, drawImage, restore; when drawImage
\* throws, control leaves the try block before ctx.restore(), and catch and
\* finally restore nothing.
CtxAfterImage(c, i, kind) ==
  IF kind = "caught"
  THEN [c EXCEPT !.saved = @ + 1, !.clip = IF @ = -1 THEN i ELSE -2]
  ELSE c

\* DrawCell without the release of the handle in the finally block.
DrawCellKeepHandle(r, w, threw) ==
  LET rn == w.rn
      kind == CellKind(rn.img, threw)
      num == currentNum(rn)
      mark == MaskMark(rn)
      ops == <<Op("cell", r, rn.b, rn.i, num)>>
             \o (IF rn.settings.showNum THEN <<Op("number", r, rn.b, rn.i, num)>> ELSE <<>>)
             \o (IF mark # "none" THEN <<Op(mark, r, rn.b, rn.i, num)>> ELSE <<>>)
  IN  [w EXCEPT !.canvas = [CtxAfterImage(w.canvas, rn.i, kind) EXCEPT !.ops = @ \o ops],
                !.rn.drawLog = Append(@, [b |-> rn.b, i |-> rn.i, num |-> num,
                                          shown |-> rn.settings.showNum, mark |-> mark,
                                          src |-> rn.img.src]),
                !.rn.last = [b |-> rn.b, i |-> rn.i, kind |-> kind,
                             acq |-> AcqResult(rn.img),
                             rect |-> IF kind = "image" THEN <<drawImageRect(rn)>> ELSE <<>>],
                !.rn.i = @ + 1]

\* One cell: image or placeholder, release the handle, number, mask; then i++.
\* (The number is drawn between its own save and restore.)
DrawCell(r, w, threw) ==
  LET rn == w.rn
      kind == CellKind(rn.img, threw)
      num == currentNum(rn)
      mark == MaskMark(rn)
      ops == <<Op("cell", r, rn.b, rn.i, num)>>
             \o (IF rn.settings.showNum THEN <<Op("number", r, rn.b, rn.i, num)>> ELSE <<>>)
             \o (IF mark # "none" THEN <<Op(mark, r, rn.b, rn.i, num)>> ELSE <<>>)
  IN  [w EXCEPT !.canvas = [CtxAfterImage(w.canvas, rn.i, kind) EXCEPT !.ops = @ \o ops],
                !.rn.img = NullImg,
                !.rn.drawLog = Append(@, [b |-> rn.b, i |-> rn.i, num |-> num,
                                          shown |-> rn.settings.showNum, mark |-> mark,
                                          src |-> rn.img.src]),
                !.rn.last = [b |-> rn.b, i |-> rn.i, kind |-> kind,
                             acq |-> AcqResult(rn.img),
                             rect |-> IF kind = "image" THEN <<drawImageRect(rn)>> ELSE <<>>],
                !.rn.i = @ + 1]

\* await loadImg(...) has resolved: if (isCancelled()) return; else the cell is drawn
AfterAcquire(r, w, threw) ==
  IF cancelRef THEN AfterDraw(r, w)
  ELSE CellHead(r, DrawCell(r, w, threw))

\* sheetRows dividing downwards.
sheetRowsFloor(rn) == Len(currentImgs(rn)) \div cols(rn)

\* the rows argument of the drawAsync call: Math.ceil(currentImgs.length / cols)
sheetRows(rn) == CeilDiv(Len(currentImgs(rn)), cols(rn))

\* What canvas.width or canvas.height holds after v is assigned to it: the
\* attribute is an unsigned long, and a negative number leaves it at its default.
CanvasSize(v, default) == IF v < 0 THEN default ELSE v

\* canvas.width = ..., canvas.height = ... (either clears the canvas and resets the
\* context to its default state), white background
ResizeCanvas(r, w) ==
  LET rn == w.rn
      rws == sheetRows(rn)
  IN  [w EXCEPT !.canvas =
         [width |-> CanvasSize(cols(rn) * cellW(rn) + (cols(rn) - 1) * rn.settings.gap, 300),
          height |-> CanvasSize(rws * cellH(rn) + (rws - 1) * rn.settings.gap, 150),
          ops |-> <<Op("background", r, rn.b, -1, 0)>>,
          saved |-> 0, clip |-> -1]]

\* drawAsync after the sticker has settled: load the overlay, or enter the cell loop
AfterSticker(r, w) ==
  IF w.rn.settings.overlayImgUrl # "null"
  THEN [w EXCEPT !.pc = "overlay", !.rn.overlayImgObj = "pending"]
  ELSE CellHead(r, w)

\* the call of drawAsync up to its first await
DrawEntry(r, w) ==
  IF cancelRef THEN AfterDraw(r, w)
  ELSE LET w1 == [ResizeCanvas(r, w) EXCEPT !.rn.i = 0, !.rn.stickerImgObj = "null",
                                            !.rn.overlayImgObj = "null"]
       IN  IF drawStickerUrl(w.rn) # "null"
           THEN [w1 EXCEPT !.pc = "sticker", !.rn.stickerImgObj = "pending"]
           ELSE AfterSticker(r, w1)

\* the blob toBlob hands to its callback
Blob(r, rn) ==
  [run |-> r, b |-> rn.b, type |-> mimeType(rn.settings),
   quality |-> IF isPng(rn.settings) THEN <<>> ELSE <<qVal(rn.settings)>>,
   n |-> Len(currentImgs(rn)), overlay |-> rn.overlayImgObj = "valid",
   pic |-> rn.snapshot[1]]

\* if (blob) tempBlobs.push(blob); clearRect; canvas.width = 1; canvas.height = 1; b++
AfterEncode(r, w, ok) ==
  BatchHead(r, [w EXCEPT !.rn.tempBlobs = IF ok THEN Append(@, Blob(r, w.rn)) ELSE @,
                         !.rn.nullBlobs = IF ok THEN @ ELSE @ + 1,
                         !.rn.snapshot = <<>>,
                         !.canvas = [width |-> 1, height |-> 1, ops |-> <<>>,
                                     saved |-> 0, clip |-> -1],
                         !.rn.b = @ + 1])


\* images.map(img => img.url)
Urls(imgs) == [k \in 1..Len(imgs) |-> imgs[k].url]

\* ------------------------------------------------------------------ actions
\* A click on one of the three generate buttons: runGeneration(opType) up to its
\* first await.  The buttons are never disabled, so a click may come at any time.
\* Invocations take the slots of Runs in order.
runGeneration(r, opType) ==
  /\ pc[r] = "idle"
  /\ \A q \in Runs : q < r => pc[q] # "idle"
  /\ IF Len(images) = 0
     THEN /\ pc' = [pc EXCEPT ![r] = "done"]
          /\ run' = [run EXCEPT ![r].opType = opType, ![r].exit = "rejected"]
          /\ UNCHANGED <<images, settings, canvasPresent, generatedBlobs, isLoading,
                         cancelRef, canvas, editVars, dlVars>>
     ELSE /\ cancelRef' = FALSE
          /\ generatedBlobs' = <<>>
          /\ isLoading' = TRUE
          /\ pc' = [pc EXCEPT ![r] = "prep"]
          /\ run' = [q \in Runs |->
                       IF q = r
                       THEN [IdleRun EXCEPT !.opType = opType, !.images = Urls(images),
                                            !.settings = settings]
                       ELSE [run[q] EXCEPT !.cancelledAcq = 0]]
          /\ UNCHANGED <<images, settings, canvasPresent, canvas, editVars, dlVars>>

\* The 50 ms timer: targets, mask indices, the canvas check, the first loop test.
AfterStartDelay(r) ==
  /\ pc[r] = "prep"
  /\ LET rn == [run[r] EXCEPT
                  !.targets = Targets(run[r].opType, run[r].images, run[r].settings),
                  !.maskIndicesArr = parseMaskIndices(run[r].settings.maskIndices)]
         w == [World(r) EXCEPT !.rn = rn]
     IN  IF ~canvasPresent
         THEN Apply(r, [w EXCEPT !.pc = "done", !.isLoading = FALSE, !.rn.exit = "nocanvas"])
         ELSE Apply(r, BatchHead(r, w))
  /\ UNCHANGED <<images, settings, canvasPresent, cancelRef, editVars, dlVars>>

\* The 200 ms pause of a batch is over: cell sizes, then drawAsync is called.
GcPauseDone(r) ==
  /\ pc[r] = "gcpause"
  /\ Apply(r, DrawEntry(r, World(r)))
  /\ UNCHANGED <<images, settings, canvasPresent, cancelRef, editVars, dlVars>>

\* Whether an image URL of the settings loads: "sticker" and "overlay" do, any other
\* (a revoked or undecodable one) fires error.
Loads(url) == url \in {"sticker", "overlay"}

\* The sticker image fires load or error (either resolves the wait).
StickerSettled(r) ==
  /\ pc[r] = "sticker"
  /\ Apply(r, AfterSticker(r, [World(r) EXCEPT
                                !.rn.stickerImgObj =
                                  IF Loads(drawStickerUrl(run[r])) THEN "valid" ELSE "invalid"]))
  /\ UNCHANGED <<images, settings, canvasPresent, cancelRef, editVars, dlVars>>

\* The overlay image fires load or error.
OverlaySettled(r) ==
  /\ pc[r] = "overlay"
  /\ Apply(r, CellHead(r, [World(r) EXCEPT
                             !.rn.overlayImgObj =
                               IF Loads(run[r].settings.overlayImgUrl) THEN "valid" ELSE "invalid"]))
  /\ UNCHANGED <<images, settings, canvasPresent, cancelRef, editVars, dlVars>>

\* The setTimeout(0) yield before cell i is over: the cell's image is requested.
YieldDone(r) ==
  /\ pc[r] = "yield"
  /\ Apply(r, Acquire(r, World(r)))
  /\ UNCHANGED <<images, settings, canvasPresent, cancelRef, editVars, dlVars>>

\* img.onload: resolve(), which only an object URL that named a blob when it was
\* assigned can fire.  The image may still report zero natural size or not
\* complete (valid = FALSE), and drawImage may throw on a decoded image.
ImgLoad(r, Outcomes) ==
  /\ pc[r] = "loading"
  /\ run[r].img.resolved
  /\ \E outcome \in Outcomes :
       Apply(r, AfterAcquire(r, [World(r) EXCEPT !.rn.img.valid = outcome # "invalid",
                                                 !.rn.acq.resolves = @ + 1],
                             outcome = "throws"))
  /\ UNCHANGED <<images, settings, canvasPresent, cancelRef, editVars, dlVars>>

\* ImgError retrying while retries >= 0.
ImgErrorOneMore(r) ==
  /\ pc[r] = "loading"
  /\ LET w == [World(r) EXCEPT !.rn.acq.errors = @ + 1]
     IN  IF run[r].img.retries >= 0
         THEN Apply(r, [w EXCEPT !.pc = "retrywait", !.rn.acq.timers = @ + 1])
         ELSE Apply(r, AfterAcquire(r, [w EXCEPT !.rn.img.isBroken = TRUE,
                                                 !.rn.acq.brokenAt = w.rn.acq.errors,
                                                 !.rn.acq.resolves = @ + 1],
                                    FALSE))
  /\ UNCHANGED <<images, settings, canvasPresent, cancelRef, editVars, dlVars>>

\* img.onerror: a retry 200 ms later while retries > 0, else isBroken and resolve().
ImgError(r) ==
  /\ pc[r] = "loading"
  /\ LET w == [World(r) EXCEPT !.rn.acq.errors = @ + 1]
     IN  IF run[r].img.retries > 0
         THEN Apply(r, [w EXCEPT !.pc = "retrywait", !.rn.acq.timers = @ + 1])
         ELSE Apply(r, AfterAcquire(r, [w EXCEPT !.rn.img.isBroken = TRUE,
                                                 !.rn.acq.brokenAt = w.rn.acq.errors,
                                                 !.rn.acq.resolves = @ + 1],
                                    FALSE))
  /\ UNCHANGED <<images, settings, canvasPresent, cancelRef, editVars, dlVars>>

\* The retry timer: img.src = src; loadImg(src, retries - 1) sets the handlers anew.
RetryTimer(r) ==
  /\ pc[r] = "retrywait"
  /\ Apply(r, [World(r) EXCEPT !.pc = "loading",
                               !.rn.img.retries = @ - 1,
                               !.rn.img.resolved = run[r].img.src \notin revoked,
                               !.rn.acq.attempts = @ + 1,
                               !.rn.acq.srcs = @ \cup {run[r].img.src}])
  /\ UNCHANGED <<images, settings, canvasPresent, cancelRef, editVars, dlVars>>

\* The toBlob callback, with a blob or with null.
ToBlobDone(r, Results) ==
  /\ pc[r] = "encoding"
  /\ \E ok \in Results : Apply(r, AfterEncode(r, World(r), ok))
  /\ UNCHANGED <<images, settings, canvasPresent, cancelRef, editVars, dlVars>>

\* The toBlob callback of an environment without faults: a blob, or null for a
\* canvas without pixels.
ToBlobOfSheet(r) ==
  /\ pc[r] = "encoding"
  /\ ToBlobDone(r, {run[r].snapshot[1].width > 0 /\ run[r].snapshot[1].height > 0})

\* The cancel button of the progress toast, which takes clicks while isLoading.
\* (cancelAt notes, for every invocation in flight, how many cells it had drawn and
\* how many sheets it had given to toBlob when the cancellation was first requested:
\* part of the run's past.)
cancelProcess ==
  /\ isLoading
  /\ cancelRef' = TRUE
  /\ isLoading' = FALSE
  /\ run' = [r \in Runs |->
               IF pc[r] \notin {"idle", "done"} /\ run[r].cancelAt = <<>>
               THEN [run[r] EXCEPT !.cancelAt = <<[draws |-> Len(run[r].drawLog),
                                                   encodes |-> run[r].encodes]>>]
               ELSE run[r]]
  /\ UNCHANGED <<images, settings, canvasPresent, generatedBlobs, canvas, pc, editVars, dlVars>>

\* --------------------------------------------- the image list and its object store
\* const key = item.name + item.size: the name followed by the size in decimal
Key(item) == item.name \o Decimal(item.size)

\* prev.filter(item => { duplicate = seen.has(key); seen.add(key); return !duplicate })
RECURSIVE Dedupe(_, _, _)
Dedupe(prev, k, seen) ==
  IF k > Len(prev) THEN <<>>
  ELSE (IF Key(prev[k]) \in seen THEN <<>> ELSE <<prev[k]>>)
       \o Dedupe(prev, k + 1, seen \cup {Key(prev[k])})

\* The items the filter drops, in the order it meets them.
RECURSIVE Duplicates(_, _, _)
Duplicates(prev, k, seen) ==
  IF k > Len(prev) THEN <<>>
  ELSE (IF Key(prev[k]) \in seen THEN <<prev[k]>> ELSE <<>>)
       \o Duplicates(prev, k + 1, seen \cup {Key(prev[k])})

\* duplicatesCount: over the groups of equal key, the members beyond the first
duplicatesCount(imgs) == Len(imgs) - Cardinality({Key(imgs[k]) : k \in 1..Len(imgs)})

\* What the store holds of an item: put({ ...item, blob }); the blob's content is
\* the file, known here by its name and size.
Stored(item) == [id |-> item.id, name |-> item.name, size |-> item.size]

\* A store operation issued: each opens the database and runs one readwrite
\* transaction.  The database hands out connections, and starts readwrite
\* transactions on the one store, in the order of the requests.
PutOp(items) == [op |-> "put", items |-> items, id |-> 0]
DeleteOp(id) == [op |-> "delete", items |-> <<>>, id |-> id]
ClearOp == [op |-> "clear", items |-> <<>>, id |-> 0]

\* The store after the transaction of o has committed: put replaces the record of
\* the same key.
Committed(store, o) ==
  CASE o.op = "put" ->
         LET ids == {o.items[k].id : k \in 1..Len(o.items)}
         IN  {rec \in store : rec.id \notin ids} \cup {Stored(o.items[k]) : k \in 1..Len(o.items)}
    [] o.op = "delete" -> {rec \in store : rec.id # o.id}
    [] o.op = "clear" -> {}

\* tx.oncomplete or tx.onerror of the oldest operation: it commits whole, or fails
\* and leaves the store as it was (the caller logs the rejection, or ignores it).
DbSettle(Results) ==
  /\ dbQueue # <<>>
  /\ \E ok \in Results :
       db' = IF ok THEN Committed(db, Head(dbQueue)) ELSE db
  /\ dbQueue' = Tail(dbQueue)
  /\ UNCHANGED <<images, settings, canvasPresent, generatedBlobs, isLoading, cancelRef, canvas,
                 pc, run, revoked, fresh, importJob, dlVars>>

\* file.type.startsWith('image/') || file.name.match(/\.(jpg|jpeg|png|gif|webp)$/i)
Accepted(file) == file.image

\* The items made of the accepted files of a chunk, the n-th taking the id and the
\* object URL base + n (Math.random ids and createObjectURL never repeat).
RECURSIVE NewImages(_, _, _)
NewImages(chunk, k, base) ==
  IF k > Len(chunk) THEN <<>>
  ELSE IF Accepted(chunk[k])
       THEN <<[id |-> base + 1, url |-> base + 1, name |-> chunk[k].name, size |-> chunk[k].size]>>
            \o NewImages(chunk, k + 1, base + 1)
       ELSE NewImages(chunk, k + 1, base)

\* One pass of the chunk loop of handleFiles: the files from i on, at most
\* CHUNK_SIZE, are put in the store by one operation and appended to the list.
ImportChunk(files, i) ==
  LET chunk == Slice(files, i, i + CHUNK_SIZE)
      newImages == NewImages(chunk, 1, fresh)
  IN  /\ fresh' = fresh + Len(newImages)
      /\ dbQueue' = IF Len(newImages) > 0 THEN Append(dbQueue, PutOp(newImages)) ELSE dbQueue
      /\ images' = images \o newImages
      /\ importJob' = <<[files |-> files, i |-> i + CHUNK_SIZE]>>

\* handleFiles up to its first await (one import is followed at a time).
handleFiles(files) ==
  /\ importJob = <<>>
  /\ Len(files) > 0
  /\ fresh + Len(files) <= MaxFresh
  /\ isLoading' = TRUE
  /\ ImportChunk(files, 0)
  /\ UNCHANGED <<settings, canvasPresent, generatedBlobs, cancelRef, canvas, pc, run,
                 revoked, db, dlVars>>

\* The animation frame after a chunk: the next chunk, or the end of the import.
ImportFrame ==
  /\ importJob # <<>>
  /\ LET job == importJob[1]
     IN  IF job.i < Len(job.files)
         THEN ImportChunk(job.files, job.i) /\ UNCHANGED isLoading
         ELSE /\ isLoading' = FALSE
              /\ importJob' = <<>>
              /\ UNCHANGED <<images, fresh, dbQueue>>
  /\ UNCHANGED <<settings, canvasPresent, generatedBlobs, cancelRef, canvas, pc, run,
                 revoked, db, dlVars>>

\* Array.prototype.splice(index, 1)
RemoveAt(s, index) == [k \in 1..(Len(s) - 1) |-> IF k <= index THEN s[k] ELSE s[k + 1]]

\* The image at index (from 0), picked on the grid, is replaced by the file chosen.
handleReplace(index, file) ==
  /\ index \in 0..(Len(images) - 1)
  /\ fresh < MaxFresh
  /\ LET img == images[index + 1]
         newUrl == fresh + 1
         next == [img EXCEPT !.url = newUrl, !.name = file.name, !.size = file.size]
     IN  /\ fresh' = newUrl
         /\ dbQueue' = Append(dbQueue, PutOp(<<next>>))
         /\ revoked' = revoked \cup {img.url}
         /\ images' = [images EXCEPT ![index + 1] = next]
  /\ UNCHANGED <<settings, canvasPresent, generatedBlobs, isLoading, cancelRef, canvas, pc, run,
                 db, importJob, dlVars>>

\* The image at index, picked on the grid, is deleted (the confirm dialog accepted).
deleteImage(index) ==
  /\ index \in 0..(Len(images) - 1)
  /\ dbQueue' = Append(dbQueue, DeleteOp(images[index + 1].id))
  /\ revoked' = revoked \cup {images[index + 1].url}
  /\ images' = RemoveAt(images, index)
  /\ UNCHANGED <<settings, canvasPresent, generatedBlobs, isLoading, cancelRef, canvas, pc, run,
                 fresh, db, importJob, dlVars>>

\* The clear button is shown while the list is not empty.
confirmClearAll ==
  /\ Len(images) > 0
  /\ dbQueue' = Append(dbQueue, ClearOp)
  /\ revoked' = revoked \cup SeqToSet(Urls(images))
  /\ images' = <<>>
  /\ UNCHANGED <<settings, canvasPresent, generatedBlobs, isLoading, cancelRef, canvas, pc, run,
                 fresh, db, importJob, dlVars>>

\* The de-duplicate button is shown while duplicatesCount > 0.
removeDuplicates ==
  /\ duplicatesCount(images) > 0
  /\ LET dropped == Duplicates(images, 1, {})
     IN  /\ revoked' = revoked \cup SeqToSet(Urls(dropped))
         /\ dbQueue' = dbQueue \o [k \in 1..Len(dropped) |-> DeleteOp(dropped[k].id)]
  /\ images' = Dedupe(images, 1, {})
  /\ UNCHANGED <<settings, canvasPresent, generatedBlobs, isLoading, cancelRef, canvas, pc, run,
                 fresh, db, importJob, dlVars>>

\* img.onerror for an object URL that named no blob when it was assigned.
ImgErrorRevoked(r) ==
  /\ ~run[r].img.resolved
  /\ ImgError(r)

\* ------------------------------------------------------------------ downloads
\* updateSetting('qualityVal', val), from the quality buttons and the slider
updateSetting(val) ==
  /\ settings' = [settings EXCEPT !.qualityVal = val]
  /\ UNCHANGED <<images, canvasPresent, generatedBlobs, isLoading, cancelRef, canvas, pc, run,
                 editVars, dlVars>>

\* A file handed to the browser: by which kind of download, under which extension,
\* and the format its content was encoded in.
\* parts: const ext = blob.type.includes('png') ? 'png' : 'jpg'
PartFile(blob) ==
  [kind |-> "parts", ext |-> IF blob.type = "image/png" THEN "png" ELSE "jpg", type |-> blob.type]

\* zip: const ext = settings.qualityVal === 100 ? 'png' : 'jpg', for every entry
ZipEntry(blob, st) ==
  [kind |-> "zip", ext |-> IF st.qualityVal = 100 THEN "png" ELSE "jpg", type |-> blob.type]

\* combine: the long image is encoded anew by toBlob, in the format and under the
\* extension settings.qualityVal gives
CombinedFile(st) ==
  [kind |-> "combine", ext |-> IF st.qualityVal = 100 THEN "png" ELSE "jpg",
   type |-> IF st.qualityVal = 100 THEN "image/png" ELSE "image/jpeg"]

\* handleDownload(type) up to its first await, with the generatedBlobs and settings
\* of the render it was created in.  parts hands over the first sheet at once and
\* is over if there is no other.  (One download is followed at a time; the pixel
\* limit of combine is not reached by the sheets of the bounds.)
handleDownload(type) ==
  /\ Len(generatedBlobs) > 0
  /\ downloadJob = <<>>
  /\ CASE type = "zip" ->
            /\ downloadJob' = <<[type |-> type,
                                 files |-> [k \in 1..Len(generatedBlobs) |->
                                              ZipEntry(generatedBlobs[k], settings)]]>>
            /\ isLoading' = TRUE
            /\ UNCHANGED downloads
       [] type = "combine" ->
            /\ Len(images) <= 100
            /\ downloadJob' = <<[type |-> type, files |-> <<CombinedFile(settings)>>]>>
            /\ isLoading' = TRUE
            /\ UNCHANGED downloads
       [] type = "parts" ->
            /\ downloads' = downloads \cup {PartFile(generatedBlobs[1])}
            /\ IF Len(generatedBlobs) > 1
               THEN /\ downloadJob' = <<[type |-> type,
                                         files |-> [k \in 1..(Len(generatedBlobs) - 1) |->
                                                      PartFile(generatedBlobs[k + 1])]]>>
                    /\ isLoading' = TRUE
               ELSE /\ downloadJob' = <<>>
                    /\ isLoading' = FALSE
  /\ UNCHANGED <<images, settings, canvasPresent, generatedBlobs, cancelRef, canvas, pc, run,
                 editVars>>

\* The await of handleDownload is over: the archive is generated (zip), toBlob calls
\* back (combine), or the 1500 ms between two parts have passed.
DownloadStep ==
  /\ downloadJob # <<>>
  /\ LET job == downloadJob[1]
     IN  IF job.type = "parts" /\ Len(job.files) > 1
         THEN /\ downloads' = downloads \cup {Head(job.files)}
              /\ downloadJob' = <<[job EXCEPT !.files = Tail(@)]>>
              /\ UNCHANGED isLoading
         ELSE /\ downloads' = downloads \cup SeqToSet(job.files)
              /\ downloadJob' = <<>>
              /\ isLoading' = FALSE
  /\ UNCHANGED <<images, settings, canvasPresent, generatedBlobs, cancelRef, canvas, pc, run,
                 editVars>>

\* ---------------------------------------------------------------- the start
\* A string is written as the sequence of its characters; the k-th image restored
\* from the store has id k, object URL k, and a name and size of its own.
FileName(k) == <<"f">> \o Decimal(k)
Item(k) == [id |-> k, url |-> k, name |-> FileName(k), size |-> 1000 + k]
ImageLists(maxN) == {[k \in 1..n |-> Item(k)] : n \in 0..maxN}

InitState(imgs, st, present) ==
  /\ images = imgs
  /\ settings = st
  /\ canvasPresent = present
  /\ generatedBlobs = <<>>
  /\ isLoading = FALSE
  /\ cancelRef = FALSE
  /\ canvas = FreshCanvas
  /\ pc = [r \in Runs |-> "idle"]
  /\ run = [r \in Runs |-> IdleRun]
  /\ revoked = {}
  /\ fresh = Len(imgs)
  /\ db = {Stored(imgs[k]) : k \in 1..Len(imgs)}
  /\ dbQueue = <<>>
  /\ importJob = <<>>
  /\ downloads = {}
  /\ downloadJob = <<>>

\* The mask-index strings the settings form is given.
MaskInputs ==
  { <<>>, <<"2">>, <<"1", "-", "2">>, <<"x">>, <<"3", ",", "1">> }

\* What decorates a sheet: <<maskMode, stickerImgUrl, overlayImgUrl, showNum>>.
Decors ==
  { <<"line", "null", "null", TRUE>>, <<"image", "sticker", "null", TRUE>>,
    <<"image", "badsticker", "badoverlay", TRUE>>, <<"line", "sticker", "overlay", FALSE>> }

\* The columns, the rows of a group and the start numbers are the least, 1, and the
\* greatest of their bounds.
SettingsSet ==
  {[DEFAULT_SETTINGS EXCEPT !.cols = c, !.groupRows = g, !.startNumber = sn,
                            !.maskIndices = m, !.maskMode = d[1],
                            !.stickerImgUrl = d[2], !.overlayImgUrl = d[3],
                            !.showNum = d[4]] :
     c \in {1, MaxCols}, g \in {1, MaxRows}, sn \in {1, MaxStart}, m \in MaskInputs,
     d \in Decors}

\* ------------------------------------------- one invocation and the cancel button
Init ==
  \E imgs \in ImageLists(MaxImages), st \in SettingsSet, present \in BOOLEAN :
    InitState(imgs, st, present)

Next ==
  \/ \E opType \in OpTypes : runGeneration(1, opType)
  \/ AfterStartDelay(1)
  \/ GcPauseDone(1)
  \/ StickerSettled(1)
  \/ OverlaySettled(1)
  \/ YieldDone(1)
  \/ ImgLoad(1, {"ok", "invalid", "throws"})
  \/ ImgError(1)
  \/ RetryTimer(1)
  \/ ToBlobDone(1, BOOLEAN)
  \/ cancelProcess

Spec == Init /\ [][Next]_vars

\* ------------------- two invocations in flight together, every load and encode succeeding
ConcSettings ==
  {[DEFAULT_SETTINGS EXCEPT !.cols = c, !.groupRows = 1] : c \in 1..2}

InitConc ==
  \E imgs \in ImageLists(2), st \in ConcSettings : InitState(imgs, st, TRUE)

NextConc ==
  \/ \E r \in Runs, opType \in OpTypes : runGeneration(r, opType)
  \/ \E r \in Runs : AfterStartDelay(r)
  \/ \E r \in Runs : GcPauseDone(r)
  \/ \E r \in Runs : YieldDone(r)
  \/ \E r \in Runs : ImgLoad(r, {"ok"})
  \/ \E r \in Runs : ToBlobDone(r, {TRUE})
  \/ cancelProcess

SpecConc == InitConc /\ [][NextConc]_vars

\* ------- one invocation left to run to its end, every load and encode succeeding,
\* ------- over wider settings: many images, wide grids, every quality, mask strings
\* cols and groupRows as the number inputs give them: 0 stands for 0 and for NaN
\* (an emptied input), both falsy.
SheetSettings ==
  {[DEFAULT_SETTINGS EXCEPT !.cols = c, !.groupRows = g] :
     c \in 0..MaxSeqCols, g \in 0..MaxSeqRows}

\* The quality slider runs from 10 to 100; stored settings may hold any number.
QualityVals == {1, 5, 9, 10, 11, 50, 95, 99, 100}

QualitySettings ==
  {[DEFAULT_SETTINGS EXCEPT !.qualityVal = q, !.cols = 1, !.groupRows = 1] : q \in QualityVals}

\* The gap slider runs from 0 to 100.
Gaps == {0, 7, 100}
AspectRatios == {"0.5625", "0.75", "1", "1.333", "custom"}

LayoutSettings ==
  {[DEFAULT_SETTINGS EXCEPT !.cols = c, !.gap = g, !.aspectRatio = a] :
     c \in 1..MaxLayoutCols, g \in Gaps, a \in AspectRatios}

\* The characters of the short mask strings, and every string of them up to a length.
MaskAlphabet ==
  {"1", "2", "5", "-", "~", "EMDASH", "ENDASH", ",", "FWCOMMA", "ENUMCOMMA", " ", "a", "."}

Strings(alphabet, maxLen) == UNION {[1..n -> alphabet] : n \in 0..maxLen}

\* Longer mask strings, a character per element.
NamedMaskInputs ==
  { <<"1", "-", "3", ",", "5">>,
    <<"5", "-", "3">>,
    <<"a", ",", "1", ",", ",", "2">>,
    <<"1", ",", " ", "3", "-", "5", "FWCOMMA", "8">>,
    <<"1", "2", "a", "b", "c">>,
    <<"1", ".", "5">>,
    <<"1", "-", "2", "-", "3">>,
    <<"-", "5">>,
    <<"3", "-", "x">>,
    <<"1", "0", "ENDASH", "1", "2", "ENUMCOMMA", " ", "7">> }

MaskSettings ==
  {[DEFAULT_SETTINGS EXCEPT !.maskIndices = m, !.cols = 1, !.groupRows = 1] :
     m \in Strings(MaskAlphabet, MaxMaskLen) \cup NamedMaskInputs}

InitSeq ==
  \/ \E imgs \in ImageLists(MaxSeqImages), st \in SheetSettings : InitState(imgs, st, TRUE)
  \/ \E st \in QualitySettings \cup LayoutSettings \cup MaskSettings :
       InitState(<<Item(1)>>, st, TRUE)

NextSeq ==
  \/ \E opType \in OpTypes : runGeneration(1, opType)
  \/ AfterStartDelay(1)
  \/ GcPauseDone(1)
  \/ YieldDone(1)
  \/ ImgLoad(1, {"ok"})
  \/ ToBlobDone(1, {TRUE})

SpecSeq == InitSeq /\ [][NextSeq]_vars


\* ------- the image list edited while one invocation runs, whose images load unless
\* ------- their object URL was revoked
\* The files offered for import: their name, their size in bytes, and whether the
\* filter of handleFiles takes them for images.
FileA == [name |-> <<"a">>, size |-> 12, image |-> TRUE]
FileB == [name |-> <<"a", "1">>, size |-> 2, image |-> TRUE]
FileT == [name |-> <<"t">>, size |-> 12, image |-> FALSE]
FileLists == { <<FileA>>, <<FileA, FileB>>, <<FileT, FileA>> }

\* The lists restored from the store: distinct files, or the same file imported twice.
Copy(k, n) == [Item(k) EXCEPT !.id = n, !.url = n]
EditLists == { <<Item(1)>>, <<Item(1), Item(2)>>, <<Item(1), Copy(1, 2)>> }

InitEdit == \E imgs \in EditLists : InitState(imgs, DEFAULT_SETTINGS, TRUE)

NextEdit ==
  \/ \E index \in 0..1, file \in {FileA} : handleReplace(index, file)
  \/ \E index \in 0..1 : deleteImage(index)
  \/ confirmClearAll
  \/ removeDuplicates
  \/ runGeneration(1, "normal")
  \/ AfterStartDelay(1)
  \/ GcPauseDone(1)
  \/ YieldDone(1)
  \/ ImgLoad(1, {"ok"})
  \/ ImgErrorRevoked(1)
  \/ RetryTimer(1)
  \/ ToBlobDone(1, {TRUE})

SpecEdit == InitEdit /\ [][NextEdit]_vars

\* ------- the image list edited and imported into, and the store settling, each
\* ------- operation committing or failing
InitStore == \E imgs \in ImageLists(1) : InitState(imgs, DEFAULT_SETTINGS, TRUE)

NextStore ==
  \/ \E files \in FileLists : handleFiles(files)
  \/ ImportFrame
  \/ \E index \in 0..(MaxFresh - 1), file \in {FileB} : handleReplace(index, file)
  \/ \E index \in 0..(MaxFresh - 1) : deleteImage(index)
  \/ confirmClearAll
  \/ removeDuplicates
  \/ DbSettle(BOOLEAN)

SpecStore == InitStore /\ [][NextStore]_vars

\* The same with every store operation committing.
NextStoreCommitted ==
  \/ \E files \in FileLists : handleFiles(files)
  \/ ImportFrame
  \/ \E index \in 0..(MaxFresh - 1), file \in {FileB} : handleReplace(index, file)
  \/ \E index \in 0..(MaxFresh - 1) : deleteImage(index)
  \/ confirmClearAll
  \/ removeDuplicates
  \/ DbSettle({TRUE})

SpecStoreCommitted == InitStore /\ [][NextStoreCommitted]_vars

\* ------- one invocation over one or two sheets, the quality changed at any time,
\* ------- and the downloads of what was generated
DownloadKinds == {"parts", "zip", "combine"}

\* The qualities the buttons set, and one only a stored setting can hold.
StoredQualities == {50, 80, 100, 150}
FormQualities == {50, 100}

DownloadSettings ==
  {[DEFAULT_SETTINGS EXCEPT !.qualityVal = q, !.cols = 1, !.groupRows = 1] :
     q \in StoredQualities}

InitDownload ==
  \E imgs \in ImageLists(2) \ {<<>>}, st \in DownloadSettings : InitState(imgs, st, TRUE)

NextDownload ==
  \/ runGeneration(1, "normal")
  \/ AfterStartDelay(1)
  \/ GcPauseDone(1)
  \/ YieldDone(1)
  \/ ImgLoad(1, {"ok"})
  \/ ToBlobDone(1, {TRUE})
  \/ \E val \in FormQualities : updateSetting(val)
  \/ \E type \in DownloadKinds : handleDownload(type)
  \/ DownloadStep

SpecDownload == InitDownload /\ [][NextDownload]_vars

\* ------- one invocation over one sheet, with the extremes the settings form gives
\* The column input takes any number; the gap slider runs from 0 to 100.
FormCols == {1, 5, 6, 81, 82, 200}
FormGaps == {0, 1, 100}

\* The two custom inputs take any number: <<customW, customH>>.
FormCustoms == {<<1000, 1500>>, <<1, 3000>>, <<1501, 1>>, <<3001, 1>>}

FormSettings ==
  {[DEFAULT_SETTINGS EXCEPT !.cols = c, !.gap = g, !.aspectRatio = a] :
     c \in FormCols, g \in FormGaps, a \in AspectRatios \ {"custom"}}
  \cup
  {[DEFAULT_SETTINGS EXCEPT !.cols = c, !.gap = g, !.aspectRatio = "custom",
                           !.customW = wh[1], !.customH = wh[2]] :
     c \in FormCols, g \in FormGaps, wh \in FormCustoms}

InitForm ==
  \E imgs \in ImageLists(2) \ {<<>>}, st \in FormSettings : InitState(imgs, st, TRUE)

NextForm ==
  \/ runGeneration(1, "normal")
  \/ AfterStartDelay(1)
  \/ GcPauseDone(1)
  \/ YieldDone(1)
  \/ ImgLoad(1, {"ok"})
  \/ ToBlobOfSheet(1)

SpecForm == InitForm /\ [][NextForm]_vars

\* ------- one invocation over pictures of several shapes, in every layout
FitSettings ==
  {[DEFAULT_SETTINGS EXCEPT !.cols = c, !.gap = g, !.aspectRatio = a] :
     c \in 1..MaxFitCols, g \in Gaps, a \in AspectRatios}

InitFit ==
  \E imgs \in ImageLists(MaxFitImages) \ {<<>>}, st \in FitSettings : InitState(imgs, st, TRUE)

NextFit ==
  \/ runGeneration(1, "normal")
  \/ AfterStartDelay(1)
  \/ GcPauseDone(1)
  \/ YieldDone(1)
  \/ ImgLoad(1, {"ok"})
  \/ ToBlobDone(1, {TRUE})

SpecFit == InitFit /\ [][NextFit]_vars

\* ================================================================== claims
\* The parsed mask set of a run: the numbers of the array parseMaskIndices gave it.
MaskSet(rn) == SeqToSet(rn.maskIndicesArr)

\* The invocation ended on a cancellation poll with batch b + 1 not yet encoded.
CancelledInBatch(r) ==
  pc[r] = "done" /\ run[r].exit = "cancelled" /\ run[r].b < totalBatches(run[r])

\* The invocation saw the cancellation while drawing the sheet of batch b + 1: the
\* sheet it began is left on the canvas, not encoded.
CancelledWhileDrawing(r) ==
  /\ CancelledInBatch(r)
  /\ canvas.ops # <<>>
  /\ canvas.ops[1] = Op("background", r, run[r].b, -1, 0)

\* The blobs of s are of batches below b, in ascending batch order.
EarlierBatchesInOrder(s, b) ==
  /\ \A j \in 1..Len(s) : s[j].b < b
  /\ \A j \in 1..Len(s), k \in 1..Len(s) : j < k => s[j].b < s[k].b

WholeSheet(pic, r, b, n, overlay) ==
  /\ Len(pic.ops) >= 1
  /\ pic.ops[1] = Op("background", r, b, -1, 0)
  /\ \A k \in 1..Len(pic.ops) : pic.ops[k].run = r /\ pic.ops[k].b = b
  /\ {pic.ops[k].i : k \in {j \in 1..Len(pic.ops) : pic.ops[j].op = "cell"}} = 0..(n - 1)
  /\ overlay => pic.ops[Len(pic.ops)].op = "overlay"

\* C2 as claimed: whatever toBlob is given to encode is the whole sheet of the
\* batch, drawn by that run alone since the canvas was last resized.
C2_NoPartialSheet ==
  \A r \in Runs :
    /\ run[r].snapshot # <<>> =>
         WholeSheet(run[r].snapshot[1], r, run[r].b, Len(currentImgs(run[r])),
                    run[r].overlayImgObj = "valid")
    /\ \A j \in 1..Len(run[r].tempBlobs) :
         LET blob == run[r].tempBlobs[j]
         IN  WholeSheet(blob.pic, r, blob.b, blob.n, blob.overlay)

\* The invocation is between the canvas check and its end: it works on the canvas.
OnCanvas(r) ==
  pc[r] \in {"gcpause", "sticker", "overlay", "yield", "loading", "retrywait", "encoding"}

\* C3 as claimed: at no moment do two invocations of runGeneration both work on
\* the shared canvas.
C3_OneSheetLive == Cardinality({r \in Runs : OnCanvas(r)}) <= 1

\* C4 as claimed: once cancelRef is true (and stays true) no new image acquisition
\* begins.
C4_NoAcquisitionAfterCancel == \A r \in Runs : run[r].cancelledAcq = 0

\* A step taken while cancelRef is true draws no cell (nor anything else on the
\* canvas, which at most is cleared) and calls toBlob for no sheet.
NoDrawNoEncode ==
  /\ \A r \in Runs :
       /\ Len(run'[r].drawLog) = Len(run[r].drawLog)
       /\ run'[r].encodes = run[r].encodes
  /\ canvas'.ops = canvas.ops \/ canvas'.ops = <<>>

\* The extent of the divergence from C4: while cancelRef stays true a run draws no
\* further cell and encodes no sheet, and it begins at most one image acquisition
\* (the one that follows the yield before a cell, taken after the poll).
CancelStopsDrawing ==
  /\ [](\A r \in Runs : run[r].cancelledAcq <= 1)
  /\ [][cancelRef => NoDrawNoEncode]_vars

\* A cancelled run that began one acquisition after the cancellation and drew nothing.
AcquiredAfterCancel ==
  \E r \in Runs :
    /\ pc[r] = "done" /\ run[r].exit = "cancelled"
    /\ run[r].cancelledAcq = 1 /\ run[r].acq.cancelled /\ run[r].acq.resolves = 1
    /\ Len(run[r].drawLog) = 0

\* C5 as claimed: once toBlob has given no blob, the run is over, having gone on
\* to no further batch, and has not ended as a completed run.
C5_EncodeFailureAborts ==
  \A r \in Runs :
    run[r].nullBlobs > 0 =>
      pc[r] = "done" /\ run[r].exit # "completed" /\ run[r].nullBlobs = 1

\* C6: a cell whose image failed every attempt, or loaded with no natural size or
\* not complete, is drawn as a placeholder; and a completed run whose encodes all
\* gave a blob has drawn every cell and publishes one artifact for every batch.
C6_FailedImageIsPlaceholder ==
  \A r \in Runs :
    /\ run[r].last.acq \in {"broken", "invalid"} => run[r].last.kind = "placeholder"
    /\ (pc[r] = "done" /\ run[r].exit = "completed" /\ run[r].nullBlobs = 0) =>
         /\ Len(run[r].drawLog) = Len(run[r].targets)
         /\ Len(run[r].tempBlobs) = totalBatches(run[r])
         /\ generatedBlobs = run[r].tempBlobs

C6_Witness ==
  \E r \in Runs :
    /\ pc[r] = "done" /\ run[r].exit = "completed" /\ run[r].nullBlobs = 0
    /\ run[r].last.acq = "broken" /\ run[r].last.kind = "placeholder"
    /\ totalBatches(run[r]) >= 2 /\ Len(generatedBlobs) = totalBatches(run[r])

\* The acquisition of invocation r is under way.
Acquiring(r) == pc[r] \in {"loading", "retrywait"}

\* C7: an acquisition sees at most three error events and makes at most three
\* attempts, all on the same source, each retry scheduled by one timer; the image
\* is marked broken at the third error and at no other; no timer follows it; and
\* the wait is resolved once, when the acquisition is over, and not before.
C7_BoundedRetries ==
  \A r \in Runs :
    LET a == run[r].acq
    IN  /\ a.errors <= LoadRetries + 1
        /\ a.attempts <= LoadRetries + 1
        /\ a.attempts > 0 => a.timers = a.attempts - 1 + (IF pc[r] = "retrywait" THEN 1 ELSE 0)
        /\ Cardinality(a.srcs) <= 1
        /\ a.brokenAt \in {0, LoadRetries + 1}
        /\ a.errors = LoadRetries + 1 <=> a.brokenAt = LoadRetries + 1
        /\ run[r].img.isBroken => a.brokenAt = LoadRetries + 1
        /\ a.errors = LoadRetries + 1 => ~Acquiring(r) /\ a.timers = LoadRetries
        /\ a.resolves = (IF a.attempts > 0 /\ ~Acquiring(r) THEN 1 ELSE 0)

C7_Witness ==
  \E r \in Runs :
    /\ run[r].acq.errors = 3 /\ run[r].acq.attempts = 3 /\ run[r].acq.brokenAt = 3
    /\ run[r].acq.resolves = 1 /\ run[r].last.acq = "broken"

\* C8: the number of the cell at position i of batch b is startNumber +
\* b * batchSize + i; the first cell drawn has startNumber and every further cell
\* the number of the cell drawn before it plus one, in every mode.
C8_NumbersConsecutive ==
  \A r \in Runs :
    LET log == run[r].drawLog
    IN  \A k \in 1..Len(log) :
          /\ log[k].num = run[r].settings.startNumber + log[k].b * batchSize(run[r]) + log[k].i
          /\ log[k].num = run[r].settings.startNumber + (k - 1)
          /\ k > 1 => log[k].num = log[k - 1].num + 1

C8_Witness ==
  \E r \in Runs :
    /\ run[r].opType = "repack" /\ run[r].settings.startNumber = 2
    /\ Len(run[r].drawLog) = 3 /\ run[r].drawLog[3].b = 1 /\ run[r].drawLog[3].i = 0
    /\ run[r].drawLog[3].num = 4

\* C9: with redaction active and no sticker in use, a cell carries the line mark
\* exactly when its global number is in the parsed mask set.
C9_RedactedByGlobalNumber ==
  \A r \in Runs :
    (applyMask(run[r]) /\ drawStickerUrl(run[r]) = "null") =>
      LET masked == MaskSet(run[r])
      IN  \A k \in 1..Len(run[r].drawLog) :
            LET cell == run[r].drawLog[k]
                global == run[r].settings.startNumber + cell.b * batchSize(run[r]) + cell.i
            IN  /\ cell.mark = "line" <=> global \in masked
                /\ cell.mark \in {"line", "none"}

\* a redacted cell of a later batch, whose number within its sheet is not in the set
C9_Witness ==
  \E r \in Runs :
    /\ applyMask(run[r]) /\ drawStickerUrl(run[r]) = "null"
    /\ \E k \in 1..Len(run[r].drawLog) :
         LET cell == run[r].drawLog[k]
         IN  /\ cell.mark = "line" /\ cell.b >= 1
             /\ run[r].settings.startNumber + cell.i \notin MaskSet(run[r])

\* The positions (from 0) of the image list whose number is in the mask set.
MaskedPositions(rn) ==
  LET masked == MaskSet(rn)
  IN  {i \in 0..(Len(rn.images) - 1) : rn.settings.startNumber + i \in masked}

\* C10: in repack mode the images laid out are those of the list whose position is
\* not masked, in the order of the list; their count is N less the number of masked
\* positions; and the cells drawn are these images, numbered startNumber,
\* startNumber + 1, ... without a gap.
C10_RepackCountAndNumbers ==
  \A r \in Runs :
    (run[r].opType = "repack" /\ pc[r] \notin {"idle", "prep"} /\ run[r].exit # "rejected") =>
      LET rn == run[r]
          masked == MaskedPositions(rn)
      IN  /\ Len(rn.targets) = Len(rn.images) - Cardinality(masked)
          /\ SeqToSet(rn.targets) =
               {rn.images[i + 1] : i \in (0..(Len(rn.images) - 1)) \ masked}
          /\ \A j \in 1..Len(rn.targets), k \in 1..Len(rn.targets) :
               j < k => rn.targets[j] < rn.targets[k]
          /\ \A k \in 1..Len(rn.drawLog) :
               /\ rn.drawLog[k].src = rn.targets[k]
               /\ rn.drawLog[k].num = rn.settings.startNumber + (k - 1)

\* images 1, 2, 3 with position 1 masked: images 1 and 3 are laid out and numbered on
C10_Witness ==
  \E r \in Runs :
    /\ run[r].opType = "repack" /\ pc[r] = "done" /\ run[r].exit = "completed"
    /\ Len(run[r].images) = 3 /\ run[r].targets = <<1, 3>>
    /\ Len(run[r].drawLog) = 2 /\ run[r].drawLog[2].src = 3
    /\ run[r].drawLog[2].num = run[r].settings.startNumber + 1

\* The run ended after its last batch, not cancelled, every encode having given a blob.
CompletedAllEncoded(r) ==
  pc[r] = "done" /\ run[r].exit = "completed" /\ run[r].nullBlobs = 0

\* rows * cols as the settings give them (both positive).
GroupSize(rn) == rn.settings.groupRows * rn.settings.cols

\* C11: an uncancelled run whose encodes all succeed publishes ceil(N / (rows*cols))
\* artifacts; the j-th is the sheet of batch j, holding the j-th group of rows*cols
\* consecutive images (the last group the remainder), and the cells the run drew
\* are the images in their order, group after group.
C11_SheetsInBatchOrder ==
  \A r \in Runs :
    (CompletedAllEncoded(r) /\ run[r].settings.cols > 0 /\ run[r].settings.groupRows > 0) =>
      LET rn == run[r]
          N == Len(rn.targets)
          size == GroupSize(rn)
      IN  /\ generatedBlobs = rn.tempBlobs
          /\ Len(generatedBlobs) = (N + size - 1) \div size
          /\ \A j \in 1..Len(generatedBlobs) :
               /\ generatedBlobs[j].b = j - 1
               /\ generatedBlobs[j].n = Min(size, N - (j - 1) * size)
               /\ {op.i : op \in {o \in SeqToSet(generatedBlobs[j].pic.ops) : o.op = "cell"}}
                    = 0..(generatedBlobs[j].n - 1)
          /\ Len(rn.drawLog) = N
          /\ \A k \in 1..N :
               /\ rn.drawLog[k].src = rn.targets[k]
               /\ rn.drawLog[k].b = (k - 1) \div size
               /\ rn.drawLog[k].i = (k - 1) % size

\* three images in groups of two: two sheets, the second with the one image left
C11_Witness ==
  \E r \in Runs :
    /\ CompletedAllEncoded(r) /\ Len(run[r].targets) = 3 /\ GroupSize(run[r]) = 2
    /\ Len(generatedBlobs) = 2 /\ generatedBlobs[1].n = 2 /\ generatedBlobs[2].n = 1
    /\ generatedBlobs[2].b = 1

\* The number of rows of the sheet in the bitmap pic, from its height.
RowsOfSheet(pic, rn) == (pic.height + rn.settings.gap) \div (cellH(rn) + rn.settings.gap)

\* The numbers of images, and of rows, of the sheets published, in order.
SheetSizes(blobs) == [j \in 1..Len(blobs) |-> blobs[j].n]
SheetRowCounts(blobs, rn) == [j \in 1..Len(blobs) |-> RowsOfSheet(blobs[j].pic, rn)]

\* A run over 7 images in 3 columns laying out every image, ended with all sheets encoded.
SevenImagesThreeCols(r) ==
  /\ CompletedAllEncoded(r)
  /\ Len(run[r].images) = 7 /\ Len(run[r].targets) = 7 /\ run[r].settings.cols = 3

\* C12 as claimed: 7 images in 3 columns give two sheets of 3 and 4 images, of 1
\* and 2 rows.
C12_Original ==
  \A r \in Runs :
    SevenImagesThreeCols(r) =>
      /\ SheetSizes(generatedBlobs) = <<3, 4>>
      /\ SheetRowCounts(generatedBlobs, run[r]) = <<1, 2>>

\* C12 as amended: 7 images in 3 columns are cut into groups of 3 * groupRows
\* images, the last group holding the remainder: sheets of 3, 3 and 1 images of one
\* row each when groupRows is 1; two sheets of 6 and 1 images, of 2 and 1 rows,
\* when groupRows is 2; one sheet of 7 images in 3 rows when groupRows is unset
\* (50).  A sheet of n images has ceil(n / 3) rows.
C12_SevenImagesInThreeCols ==
  \A r \in Runs :
    SevenImagesThreeCols(r) =>
      LET sizes == SheetSizes(generatedBlobs)
          rws == SheetRowCounts(generatedBlobs, run[r])
          g == run[r].settings.groupRows
      IN  /\ g = 1 => sizes = <<3, 3, 1>> /\ rws = <<1, 1, 1>>
          /\ g = 2 => sizes = <<6, 1>> /\ rws = <<2, 1>>
          /\ g = 0 => sizes = <<7>> /\ rws = <<3>>
          /\ \A j \in 1..Len(sizes) : rws[j] = (sizes[j] + 2) \div 3

C12_Witness ==
  \E r \in Runs :
    /\ SevenImagesThreeCols(r) /\ run[r].settings.groupRows = 2
    /\ Len(generatedBlobs) = 2 /\ generatedBlobs[1].n = 6 /\ generatedBlobs[2].n = 1

\* The blobs a run holds were encoded as png without a quality argument.
EncodedAsPng(blobs) ==
  \A j \in 1..Len(blobs) : blobs[j].type = "image/png" /\ blobs[j].quality = <<>>

\* The blobs a run holds were encoded as jpeg with the quality argument q / 100.
EncodedAsJpeg(blobs, q) ==
  \A j \in 1..Len(blobs) : blobs[j].type = "image/jpeg" /\ blobs[j].quality = <<q>>

\* C13 as claimed: for every quality q in 1..100, png when q = 100, else jpeg with
\* quality q / 100.
C13_Original ==
  \A r \in Runs :
    LET q == run[r].settings.qualityVal
    IN  q \in 1..100 =>
          IF q = 100 THEN EncodedAsPng(run[r].tempBlobs)
          ELSE EncodedAsJpeg(run[r].tempBlobs, q)

\* C13 as amended: png when q = 100; jpeg with quality q / 100 when q is in 10..99;
\* jpeg with quality 10 / 100 when q is below 10.
C13_QualityClamped ==
  \A r \in Runs :
    LET q == run[r].settings.qualityVal
    IN  q \in 1..100 =>
          IF q = 100 THEN EncodedAsPng(run[r].tempBlobs)
          ELSE IF q >= 10 THEN EncodedAsJpeg(run[r].tempBlobs, q)
          ELSE EncodedAsJpeg(run[r].tempBlobs, 10)

\* a sheet encoded under a quality below 10
C13_Witness ==
  \E r \in Runs :
    /\ run[r].settings.qualityVal = 9 /\ Len(run[r].tempBlobs) = 1
    /\ run[r].tempBlobs[1].type = "image/jpeg" /\ run[r].tempBlobs[1].quality = <<10>>

\* The invocation is inside drawAsync past the resize, or waits for toBlob.
SheetLaidOut(r) == pc[r] \in {"sticker", "overlay", "yield", "loading", "retrywait", "encoding"}

\* C14: cols * cellW never exceeds 8192; cellH is floor(cellW / ratio) of the
\* capped width, and the sheet is as high as its rows of such cells, with no cap of
\* its own.
C14_CellWidthCapped ==
  \A r \in Runs :
    (SheetLaidOut(r) /\ run[r].settings.cols >= 1 /\ run[r].settings.gap >= 0) =>
      LET rn == run[r]
          c == rn.settings.cols
          gap == rn.settings.gap
          ratio == getRatio(rn.settings)
          width == IF pc[r] = "encoding" THEN rn.snapshot[1].width ELSE canvas.width
          height == IF pc[r] = "encoding" THEN rn.snapshot[1].height ELSE canvas.height
          w == (width - (c - 1) * gap) \div c
          rws == (Len(currentImgs(rn)) + c - 1) \div c
          h == (height - (rws - 1) * gap) \div rws
      IN  /\ width = c * w + (c - 1) * gap
          /\ c * w <= MAX_CANVAS_DIMENSION
          /\ w = IF c * 1500 > 8192 THEN (8192 - gap * c) \div c ELSE 1500
          /\ height = rws * h + (rws - 1) * gap
          /\ h * ratio[1] <= w * ratio[2] /\ w * ratio[2] < (h + 1) * ratio[1]

\* seven columns with a gap: the width is capped, the height follows from it
C14_Witness ==
  \E r \in Runs :
    /\ pc[r] = "loading" /\ run[r].settings.cols = 7 /\ run[r].settings.gap = 100
    /\ run[r].settings.aspectRatio = "0.5625"
    /\ canvas.width = 7 * 1070 + 6 * 100 /\ canvas.height = 1902

\* The invocation has parsed its mask string (the 50 ms delay is over).
Parsed(r) == pc[r] \notin {"idle", "prep"} /\ run[r].exit # "rejected"

\* The sequence out holds exactly the numbers of the set S, each once.
HoldsExactly(out, S) == SeqToSet(out) = S /\ Len(out) = Cardinality(S)

\* C15: a range A-B gives every number between its bounds whichever is larger,
\* the tilde and the dashes stand for the hyphen, and the comma, the full-width
\* comma, the enumeration comma and white space all separate:
\* "1-3,5" gives {1,2,3,5}, "5-3" gives {3,4,5}, "a,1,,2" gives {1,2} and
\* "1, 3-5<full-width comma>8" gives {1,3,4,5,8}.
C15_RangesAndSeparators ==
  \A r \in Runs :
    Parsed(r) =>
      LET input == run[r].settings.maskIndices
          out == run[r].maskIndicesArr
      IN  /\ input = <<"1", "-", "3", ",", "5">> => HoldsExactly(out, {1, 2, 3, 5})
          /\ input = <<"5", "-", "3">> => HoldsExactly(out, {3, 4, 5})
          /\ input = <<"a", ",", "1", ",", ",", "2">> => HoldsExactly(out, {1, 2})
          /\ input = <<"1", ",", " ", "3", "-", "5", "FWCOMMA", "8">> =>
               HoldsExactly(out, {1, 3, 4, 5, 8})
          /\ (Len(input) = 3 /\ input[1] \in Digits /\ input[3] \in Digits) =>
               LET a == DigitVal(input[1])
                   b == DigitVal(input[3])
               IN  /\ input[2] \in RangeChars \cup {"-"} =>
                        HoldsExactly(out, {n \in 0..9 : (a <= n /\ n <= b) \/ (b <= n /\ n <= a)})
                   /\ input[2] \in Separators => out = <<a, b>>

\* a range written downwards, with a dash
C15_Witness ==
  \E r \in Runs :
    /\ Parsed(r) /\ run[r].settings.maskIndices = <<"5", "EMDASH", "2">>
    /\ run[r].maskIndicesArr = <<2, 3, 4, 5>>

\* The token is a single integer: decimal digits and nothing else.
IsInteger(tok) == tok # <<>> /\ \A k \in 1..Len(tok) : tok[k] \in Digits

\* The token is two integers joined by one range separator.
IsRange(tok) ==
  \E k \in 2..(Len(tok) - 1) :
    /\ tok[k] \in RangeChars \cup {"-"}
    /\ IsInteger(SubSeq(tok, 1, k - 1))
    /\ IsInteger(SubSeq(tok, k + 1, Len(tok)))

\* What the tokens contribute when only the well-formed ones count.
RECURSIVE WellFormedParts(_, _)
WellFormedParts(parts, k) ==
  IF k > Len(parts) THEN <<>>
  ELSE (IF IsInteger(parts[k]) \/ IsRange(parts[k]) THEN MaskPart(parts[k]) ELSE <<>>)
       \o WellFormedParts(parts, k + 1)

\* C16 as claimed: a token that is neither a single integer nor two integers joined
\* by one range separator contributes no number to the result.
C16_MalformedDropped ==
  \A r \in Runs :
    Parsed(r) =>
      run[r].maskIndicesArr =
        WellFormedParts(SplitSep(run[r].settings.maskIndices, 1, <<>>, FALSE), 1)

\* Invocation r is called in this step.
Invoked(r) == pc[r] = "idle" /\ pc'[r] # "idle"

\* C17 as claimed: a call with an empty image list, and likewise a call with no
\* output canvas, leaves the cancel flag, the published list, the loading flag and
\* the canvas as they were, and no invocation so rejected draws or encodes.
C17_RejectedBeforeAnyWork ==
  /\ [](\A r \in Runs :
          run[r].exit \in {"rejected", "nocanvas"} =>
            Len(run[r].drawLog) = 0 /\ run[r].encodes = 0)
  /\ [][\A r \in Runs :
          (Invoked(r) /\ (Len(images) = 0 \/ ~canvasPresent)) =>
            UNCHANGED <<cancelRef, generatedBlobs, isLoading, canvas>>]_vars

\* C18 as claimed: once cancellation has been requested for a run, the run draws no
\* further cell, gives no further sheet to toBlob and does not publish, whatever
\* is done next.
C18_CancelledRunStaysStopped ==
  \A r \in Runs :
    run[r].cancelAt # <<>> =>
      /\ Len(run[r].drawLog) = run[r].cancelAt[1].draws
      /\ run[r].encodes = run[r].cancelAt[1].encodes
      /\ run[r].exit # "completed"

\* The sticker of the run's settings is in use and loads.
StickerUsable(rn) == drawStickerUrl(rn) # "null" /\ Loads(drawStickerUrl(rn))

\* C19 as claimed: with redaction active, every cell whose global number is in the
\* mask set carries a mark: the sticker when it is loaded and valid, else the line.
C19_TargetedCellMarked ==
  \A r \in Runs :
    applyMask(run[r]) =>
      \A k \in 1..Len(run[r].drawLog) :
        run[r].drawLog[k].num \in MaskSet(run[r]) =>
          run[r].drawLog[k].mark = IF StickerUsable(run[r]) THEN "sticker" ELSE "line"

\* C20 as claimed: after every cell, by whatever path, the context has as many
\* saved states as before the cell (none) and its clip region is as before (none).
C20_CellRestoresContext == canvas.saved = 0 /\ canvas.clip = -1

\* The mode other than opType of the two that lay out every image.
OtherMode(opType) == IF opType = "normal" THEN "apply" ELSE "normal"

\* What stickerImgObj is once the sticker has settled.
StickerSettledAs(rn) ==
  IF drawStickerUrl(rn) = "null" THEN "null"
  ELSE IF Loads(drawStickerUrl(rn)) THEN "valid" ELSE "invalid"

\* The locals of the run rn had it been called in the other mode, at cell i of batch b.
TwinAt(rn, b, i) ==
  [rn EXCEPT !.opType = OtherMode(rn.opType), !.b = b, !.i = i,
             !.stickerImgObj = StickerSettledAs(rn)]

\* C21: a run in normal or apply mode lays out the images, draws the numbers and
\* marks the cells that the other of the two modes lays out, draws and marks for
\* the same image list, settings and mask string.  (Stated of the cell drawn last;
\* every cell of the log was that when it was drawn, and the log is only appended to.)
C21_NormalEqualsApply ==
  \A r \in Runs :
    (run[r].opType \in {"normal", "apply"} /\ Parsed(r)) =>
      LET rn == run[r]
      IN  /\ rn.targets = Targets(OtherMode(rn.opType), rn.images, rn.settings)
          /\ totalBatches(rn) = totalBatches(TwinAt(rn, 0, 0))
          /\ rn.drawLog # <<>> =>
                LET cell == rn.drawLog[Len(rn.drawLog)]
                    twin == TwinAt(rn, cell.b, cell.i)
                IN  /\ cell.src = currentImgs(twin)[cell.i + 1]
                    /\ cell.num = currentNum(twin)
                    /\ cell.mark = MaskMark(twin)

\* a run in normal mode that marked one cell and left another unmarked
C21_Witness ==
  \E r \in Runs :
    /\ run[r].opType = "normal" /\ pc[r] = "done" /\ run[r].exit = "completed"
    /\ \E j \in 1..Len(run[r].drawLog), k \in 1..Len(run[r].drawLog) :
         run[r].drawLog[j].mark = "line" /\ run[r].drawLog[k].mark = "none"

\* C22: in repack mode no cell carries a line or a sticker, on the canvas or in any
\* sheet encoded, whether or not its new number is in the mask set.
C22_RepackNeverRedacts ==
  \A r \in Runs :
    run[r].opType = "repack" =>
      /\ \A k \in 1..Len(run[r].drawLog) : run[r].drawLog[k].mark = "none"
      /\ \A j \in 1..Len(run[r].tempBlobs) :
           \A o \in SeqToSet(run[r].tempBlobs[j].pic.ops) : o.op \notin {"line", "sticker"}
      /\ pc[r] \notin {"idle", "done"} =>
           \A o \in SeqToSet(canvas.ops) : o.op \notin {"line", "sticker"}

\* a surviving image renumbered into the mask set and drawn unmarked
C22_Witness ==
  \E r \in Runs :
    /\ run[r].opType = "repack" /\ pc[r] = "done" /\ run[r].exit = "completed"
    /\ Len(run[r].targets) < Len(run[r].images)
    /\ \E k \in 1..Len(run[r].drawLog) :
         /\ run[r].drawLog[k].num \in MaskSet(run[r])
         /\ run[r].drawLog[k].mark = "none"
    /\ Len(generatedBlobs) >= 1

\* The place of a layer among the layers of its cell.
LayerRank(op) ==
  CASE op = "cell" -> 0 [] op = "number" -> 1 [] op \in {"line", "sticker"} -> 2

\* The overlay of the run's settings is set and loads.
OverlayUsable(rn) == rn.settings.overlayImgUrl # "null" /\ Loads(rn.settings.overlayImgUrl)

\* The layers ops of a sheet of n cells of the run rn are in compositing order: the
\* background and only it first; then the cells from 0 upwards, left to right and
\* top to bottom, the layers of a cell together and as image or placeholder,
\* number, mark; the overlay, if any, once, last, after all n cells, and only when
\* the overlay image loaded.
InCompositingOrder(ops, rn, n) ==
  /\ ops[1].op = "background"
  /\ \A k \in 2..Len(ops) :
       /\ ops[k].op # "background"
       /\ ops[k].op = "overlay" =>
            /\ k = Len(ops)
            /\ OverlayUsable(rn)
            /\ {ops[j].i : j \in {q \in 1..Len(ops) : ops[q].op = "cell"}} = 0..(n - 1)
       /\ ops[k].op # "overlay" =>
            IF ops[k - 1].op = "background"
            THEN ops[k].op = "cell" /\ ops[k].i = 0
            ELSE \/ ops[k].i = ops[k - 1].i /\ LayerRank(ops[k - 1].op) < LayerRank(ops[k].op)
                 \/ /\ ops[k].op = "cell" /\ ops[k].i = ops[k - 1].i + 1
                    /\ LET i == ops[k].i
                       IN  \/ /\ CellRow(rn, i) = CellRow(rn, i - 1)
                              /\ CellCol(rn, i) = CellCol(rn, i - 1) + 1
                           \/ /\ CellRow(rn, i) = CellRow(rn, i - 1) + 1
                              /\ CellCol(rn, i) = 0
                              /\ CellCol(rn, i - 1) = cols(rn) - 1

\* The sheet ops is whole: every one of its n cells drawn, and the overlay on top
\* exactly when the overlay image is set and loaded.
SheetComplete(ops, rn, n) ==
  /\ {ops[j].i : j \in {q \in 1..Len(ops) : ops[q].op = "cell"}} = 0..(n - 1)
  /\ ops[Len(ops)].op = "overlay" <=> OverlayUsable(rn)

\* C23: what is on the canvas while a run draws, and every sheet given to toBlob,
\* is in compositing order; a sheet given to toBlob is whole.  (Of the blobs, the
\* one pushed last is looked at: each was that when pushed, and none is changed.)
C23_CompositingOrder ==
  /\ (pc[1] \notin {"idle", "done"} /\ canvas.ops # <<>>) =>
       InCompositingOrder(canvas.ops, run[1], Len(currentImgs(run[1])))
  /\ run[1].snapshot # <<>> =>
       /\ InCompositingOrder(run[1].snapshot[1].ops, run[1], Len(currentImgs(run[1])))
       /\ SheetComplete(run[1].snapshot[1].ops, run[1], Len(currentImgs(run[1])))
  /\ run[1].tempBlobs # <<>> =>
       LET blob == run[1].tempBlobs[Len(run[1].tempBlobs)]
       IN  /\ InCompositingOrder(blob.pic.ops, run[1], blob.n)
           /\ SheetComplete(blob.pic.ops, run[1], blob.n)

\* a sheet of two rows with a marked cell and the overlay on top
C23_Witness ==
  \E j \in 1..Len(generatedBlobs) :
    LET ops == generatedBlobs[j].pic.ops
    IN  /\ generatedBlobs[j].n >= 2 /\ run[1].settings.cols = 1
        /\ ops[Len(ops)].op = "overlay"
        /\ \E k \in 1..Len(ops) : ops[k].op = "line" /\ ops[k].i = 1

\* a sheet with numbered cells and no overlay, its overlay image having failed to load
C23_WitnessNoOverlay ==
  \E j \in 1..Len(generatedBlobs) :
    LET ops == generatedBlobs[j].pic.ops
    IN  /\ run[1].settings.overlayImgUrl = "badoverlay"
        /\ generatedBlobs[j].n >= 2
        /\ \E k \in 1..Len(ops) : ops[k].op = "number" /\ ops[k].i = 1

\* C24: while a cell's image is being acquired the run holds the one handle of that
\* cell, loading that cell's own source; once the cell is drawn (image, placeholder
\* or caught exception) the handle is released, so none is held at the yield, during
\* the loads of sticker and overlay, while encoding, between batches, or at the end
\* of a run that was not cut short inside an acquisition.
C24_HandleReleasedAfterCell ==
  \A r \in Runs :
    LET rn == run[r]
    IN  /\ Acquiring(r) =>
             /\ rn.img.live /\ rn.img.src = currentImgs(rn)[rn.i + 1]
             /\ Len(rn.drawLog) = rn.b * batchSize(rn) + rn.i
        /\ (~Acquiring(r) /\ ~(pc[r] = "done" /\ rn.exit = "cancelled")) => rn.img = NullImg
        /\ \A k \in 1..Len(rn.drawLog) : rn.drawLog[k].src = rn.targets[k]

\* the second cell's image being loaded after the first cell's draw threw
C24_Witness ==
  \E r \in Runs :
    /\ pc[r] = "loading" /\ run[r].last.kind = "caught" /\ run[r].i = 1
    /\ run[r].img.live /\ run[r].img.src = run[r].targets[2]
    /\ Len(run[r].drawLog) = 1 /\ run[r].drawLog[1].src = run[r].targets[1]

\* No image of the list has had its object URL revoked: every source a run takes
\* from the list at its start is valid then.
ListUrlsLive == SeqToSet(Urls(images)) \cap revoked = {}

\* C25 as claimed: whatever edits are made to the image list while a run is under
\* way, no cell of the run is drawn as a placeholder (each of its sources was
\* valid when it started), and a run
\* that completes has drawn every image it started with.
C25_EditsDoNotDisturbRun ==
  \A r \in Runs :
    /\ run[r].last.kind # "placeholder"
    /\ (pc[r] = "done" /\ run[r].exit = "completed") =>
         Len(run[r].drawLog) = Len(run[r].images)

\* The ids in the store, and in the in-memory list.
StoredIds == {rec.id : rec \in db}
ListIds == {images[k].id : k \in 1..Len(images)}

\* C29 as claimed: whenever no store operation is pending, the ids in the store are
\* the ids of the image list.
C29_StoreMatchesList == dbQueue = <<>> => StoredIds = ListIds

\* (Under SpecStoreCommitted, where every operation commits, C29_StoreMatchesList
\* holds: the operations commit in the order of their issue, which is the order of
\* the updates of the list.)

\* Two items are the same file for the purpose of de-duplication.
SameNameAndSize(a, b) == a.name = b.name /\ a.size = b.size

\* The list after holds the items of the list before that have no earlier item of
\* the same name and size, in their order, and nothing else.
FirstsKept(before, after) ==
  after = SelectSeq(before,
                    LAMBDA item :
                      \A k \in 1..Len(before) :
                        (SameNameAndSize(before[k], item) /\ before[k].id # item.id) =>
                          \E j \in 1..(k - 1) : before[j].id = item.id)

\* C30 as claimed: a removeDuplicates step drops exactly the images that have an
\* earlier image of the same name and the same size, keeping the others in their
\* order; applied to its own result it changes nothing.
C30_RemovesOnlyTrueDuplicates ==
  [][removeDuplicates =>
       /\ FirstsKept(images, images')
       /\ Dedupe(images', 1, {}) = images']_vars

\* The extension that names the format a file is encoded in.
ExtensionOf(type) == IF type = "image/png" THEN "png" ELSE "jpg"

\* C26 as claimed: every file downloaded, by whichever kind of download, carries
\* the extension of the format its content is encoded in.
C26_ExtensionMatchesFormat == \A f \in downloads : f.ext = ExtensionOf(f.type)

\* What holds: the files of parts and the long image of combine carry the
\* extension of their format.
PartsAndCombineMatch ==
  \A f \in downloads : f.kind \in {"parts", "combine"} => f.ext = ExtensionOf(f.type)

\* A configuration the settings form can produce.
FormProducible(st) ==
  /\ st.cols >= 1
  /\ st.gap \in 0..100
  /\ st.aspectRatio = "custom" => (st.customW > 0 /\ st.customH > 0)

\* C27 as claimed: for every configuration the form can produce, the cell width and
\* the cell height runGeneration computes are positive, and so are the width and
\* the height of the sheet.
C27_CellsPositive ==
  \A r \in Runs :
    (SheetLaidOut(r) /\ FormProducible(run[r].settings)) =>
      LET rn == run[r]
          pic == IF pc[r] = "encoding" THEN rn.snapshot[1] ELSE canvas
      IN  /\ cellW(rn) > 0 /\ cellH(rn) > 0
          /\ pic.width > 0 /\ pic.height > 0

\* What holds: the cells are positive where the columns leave room in 8192 pixels
\* and the ratio is not wider than a cell is.
CellsPositiveWithRoom ==
  \A r \in Runs :
    LET rn == run[r]
        ratio == getRatio(rn.settings)
    IN  (/\ SheetLaidOut(r) /\ FormProducible(rn.settings)
         /\ cols(rn) * (rn.settings.gap + 1) <= MAX_CANVAS_DIMENSION
         /\ ratio[1] <= cellW(rn) * ratio[2]) =>
          /\ cellW(rn) > 0 /\ cellH(rn) > 0
          /\ canvas.width > 0 /\ canvas.height > 0

\* C28: whenever an image is drawn into a cell of positive size, the rectangle
\* drawImage is given contains the whole cell, is centred on it, has the aspect
\* ratio of the image, and equals the cell in width or in height (in both when the
\* two ratios agree).
C28_CoverFit ==
  \A r \in Runs :
    LET rn == run[r]
        cell == rn.last
        x == CellX(rn, cell.i)
        y == CellY(rn, cell.i)
        w == cellW(rn)
        h == cellH(rn)
    IN  (cell.rect # <<>> /\ w > 0 /\ h > 0) =>
          LET d == cell.rect[1]
              S == d.scale
              size == NaturalSize(rn.drawLog[Len(rn.drawLog)].src)
          IN  /\ d.x <= x * S /\ d.y <= y * S
              /\ d.x + d.w >= (x + w) * S /\ d.y + d.h >= (y + h) * S
              /\ 2 * d.x + d.w = (2 * x + w) * S
              /\ 2 * d.y + d.h = (2 * y + h) * S
              /\ d.w * size[2] = d.h * size[1]
              /\ d.w = w * S \/ d.h = h * S

\* a picture taller than its cell, cut above and below, in a cell away from the
\* origin, on a sheet that began with a picture wider than its cell
C28_Witness ==
  \E r \in Runs :
    LET rn == run[r]
        cell == rn.last
    IN  /\ cell.rect # <<>>
        /\ cell.rect[1].h > cellH(rn) * cell.rect[1].scale
        /\ cell.rect[1].w = cellW(rn) * cell.rect[1].scale
        /\ CellX(rn, cell.i) > 0 /\ CellY(rn, cell.i) > 0
        /\ NaturalSize(rn.drawLog[1].src)[1] * cellH(rn)
             > cellW(rn) * NaturalSize(rn.drawLog[1].src)[2]

====
